---- MODULE Spec2Model ----
(***************************************************************************)
(* Model of pinax/stripe/admin.py: the read-only admin classes, the three  *)
(* list filters and the search_fields declarations.                        *)
(*                                                                         *)
(* Three specifications share the module:                                  *)
(*   Spec        admin requests served through ReadOnlyAdmin and           *)
(*               ReadOnlyInline over a table of stored records;            *)
(*   SpecFilters one changelist request through each list filter, over     *)
(*               every small card / subscription table;                    *)
(*   SpecSearch  evaluation of the class bodies' search_fields for every   *)
(*               small user model.                                         *)
(***************************************************************************)
EXTENDS Integers, Sequences, FiniteSets, Bags, TLC

VARIABLES
    opts,           \* self.opts of the admin's model: local_fields, local_many_to_many
    records,        \* the stored records of that model: pk -> row (field -> value)
    response,       \* the last admin request served and what its hooks returned
    cards,          \* Card table: number of rows per <<customer, fingerprint>>
    subscriptions,  \* Subscription table: number of rows per <<customer, status>>
    filter_call,    \* the last ListFilter.queryset call: filter, value, input, result
    user_model,     \* User: USERNAME_FIELD and the names of User._meta.fields
    search          \* the last search_fields evaluated: admin class and value

vars == <<opts, records, response, cards, subscriptions, filter_call, user_model, search>>

-----------------------------------------------------------------------------
(* Bounds *)

MaxRecords == 2        \* pks of the admin's model are 1..MaxRecords
MaxCards == 2          \* at most this many Card rows
MaxSubscriptions == 2  \* at most this many Subscription rows
MaxCustomers == 2      \* Customer pks are 1..MaxCustomers; invoice i bills customer i

\* Python's None as a filter value; no parameter string equals it
None == "None"

\* obj=None of the permission hooks; an obj is passed as <<pk>>
NoObj == <<>>

-----------------------------------------------------------------------------
(* Python helpers *)

RECURSIVE list_of_set(_)
\* list(set(...)): the elements once each, in an order the caller cannot choose
list_of_set(S) ==
    IF S = {} THEN <<>>
    ELSE LET x == CHOOSE y \in S : TRUE IN <<x>> \o list_of_set(S \ {x})

Range(s) == {s[i] : i \in DOMAIN s}

\* a dict as its set of <<key, value>> items
Keys(d) == {it[1] : it \in d}

\* Python values: a str, or a list / tuple of values
Str(s) == [type |-> "str", str |-> s, items |-> <<>>]
List(items) == [type |-> "list", str |-> "", items |-> items]
Tuple(items) == [type |-> "tuple", str |-> "", items |-> items]

\* list + list
ListAdd(a, b) == List(a.items \o b.items)

\* "prefix{0}".format(s)
Format(prefix, s) == Str(prefix \o s.str)

-----------------------------------------------------------------------------
(* ReadOnlyAdmin, ReadOnlyInline *)

\* the model metas the admin classes are instantiated on
Metas ==
    { [local_fields |-> <<"stripe_id", "amount">>, local_many_to_many |-> <<>>],
      [local_fields |-> <<"stripe_id">>, local_many_to_many |-> <<"plans">>] }

FieldValues == {"a", "b"}
Pks == 1..MaxRecords
FieldNames(o) == Range(o.local_fields) \cup Range(o.local_many_to_many)
Rows(o) == [FieldNames(o) -> FieldValues]

\* requests: the user's model permissions, and whether ?_popup=1 is present
Users == { {}, {"change"}, {"add", "change", "delete"} }
Requests == [user_perms : Users, popup : BOOLEAN]

\* what ModelAdmin.get_actions can hand back: site-wide actions, possibly with
\* delete_selected disabled, and nothing at all for a popup request
ActionItems == { <<"delete_selected", "Delete selected">>, <<"export_selected", "Export selected">> }
BaseActions == SUBSET ActionItems

ReadOnlyAdmin_get_actions_keep(self, request, actions) ==
    IF "delete_selected" \in Keys(actions)
    THEN [raised |-> "", actions |-> actions]
    ELSE [raised |-> "KeyError", actions |-> {}]

\* `actions` is the value of super().get_actions(request)
ReadOnlyAdmin_get_actions(self, request, actions) ==
    IF "delete_selected" \in Keys(actions)
    THEN [raised |-> "", actions |-> {it \in actions : it[1] /= "delete_selected"}]
    ELSE [raised |-> "KeyError", actions |-> {}]

ReadOnlyAdmin_has_add_permission_user(self, request, obj) == "add" \in request.user_perms

ReadOnlyAdmin_has_add_permission(self, request, obj) == FALSE

ReadOnlyAdmin_has_delete_permission_user(self, request, obj) == "delete" \in request.user_perms

ReadOnlyAdmin_has_delete_permission(self, request, obj) == FALSE

ReadOnlyAdmin_get_readonly_fields_local(self, request, obj) ==
    list_of_set(Range(self.local_fields))

ReadOnlyAdmin_get_readonly_fields(self, request, obj) ==
    list_of_set(Range(self.local_fields \o self.local_many_to_many))

ReadOnlyInline_has_add_permission(self, request, obj) == FALSE

ReadOnlyInline_has_delete_permission(self, request, obj) == FALSE

ReadOnlyInline_get_readonly_fields(self, request, obj) ==
    list_of_set(Range(self.local_fields \o self.local_many_to_many))

-----------------------------------------------------------------------------
(* The admin site's request handlers, as far as they consult the hooks above. *)
(* Each records the hook calls it made in `response`.                         *)

NoCalls == [add_perm |-> {}, delete_perm |-> {}, readonly |-> {}, actions |-> {}]

Call(cls, request, obj, ret) == [cls |-> cls, request |-> request, obj |-> obj, ret |-> ret]

Respond(view, status, calls) ==
    [view |-> view, status |-> status, add_perm |-> calls.add_perm,
     delete_perm |-> calls.delete_perm, readonly |-> calls.readonly,
     actions |-> calls.actions]

Insert(table, pk, row) == [p \in DOMAIN table \cup {pk} |-> IF p = pk THEN row ELSE table[p]]

Delete(table, pks) == [p \in DOMAIN table \ pks |-> table[p]]

\* a submitted form overwrites exactly the fields that are not read-only
SaveForm(old, posted, readonly) ==
    [f \in DOMAIN old |-> IF f \in Range(readonly) THEN old[f] ELSE posted[f]]

AdminUnchanged == UNCHANGED <<opts, cards, subscriptions, filter_call, user_model, search>>

\* POST to the add page
add_view(request, pk, row) ==
    /\ pk \notin DOMAIN records
    /\ LET ok == ReadOnlyAdmin_has_add_permission(opts, request, NoObj)
           calls == [NoCalls EXCEPT !.add_perm = {Call("ReadOnlyAdmin", request, NoObj, ok)}]
       IN  /\ records' = IF ok THEN Insert(records, pk, row) ELSE records
           /\ response' = Respond("add_view", IF ok THEN "302" ELSE "403", calls)
    /\ AdminUnchanged

\* POST to the delete confirmation page of one record
delete_view(request, pk) ==
    /\ pk \in DOMAIN records
    /\ LET ok == ReadOnlyAdmin_has_delete_permission(opts, request, <<pk>>)
           calls == [NoCalls EXCEPT !.delete_perm = {Call("ReadOnlyAdmin", request, <<pk>>, ok)}]
       IN  /\ records' = IF ok THEN Delete(records, {pk}) ELSE records
           /\ response' = Respond("delete_view", IF ok THEN "302" ELSE "403", calls)
    /\ AdminUnchanged

\* POST of the change form of one record
change_view(request, pk, posted) ==
    /\ pk \in DOMAIN records
    /\ IF "change" \notin request.user_perms
       THEN /\ records' = records
            /\ response' = Respond("change_view", "403", NoCalls)
       ELSE LET ro == ReadOnlyAdmin_get_readonly_fields(opts, request, <<pk>>)
                calls == [NoCalls EXCEPT !.readonly = {Call("ReadOnlyAdmin", request, <<pk>>, ro)}]
            IN  /\ records' = [records EXCEPT ![pk] = SaveForm(records[pk], posted, ro)]
                /\ response' = Respond("change_view", "302", calls)
    /\ AdminUnchanged

\* POST of the changelist with action=delete_selected and the ticked records
changelist_action(request, site_actions, selected) ==
    LET base == IF request.popup THEN {} ELSE site_actions
        got == ReadOnlyAdmin_get_actions(opts, request, base)
        listed == got.raised = "" /\ "delete_selected" \in Keys(got.actions)
        ok == ReadOnlyAdmin_has_delete_permission(opts, request, NoObj)
        calls == [NoCalls EXCEPT
                    !.actions = {[request |-> request, base |-> base, ret |-> got]},
                    !.delete_perm = IF listed THEN {Call("ReadOnlyAdmin", request, NoObj, ok)}
                                    ELSE {}]
    IN  /\ records' = IF listed /\ ok THEN Delete(records, selected) ELSE records
        /\ response' = Respond("changelist_action",
                               IF got.raised /= "" THEN "500"
                               ELSE IF ~listed THEN "200"
                               ELSE IF ok THEN "302" ELSE "403",
                               calls)
        /\ AdminUnchanged

\* one submitted row of an inline formset: a new row, a row ticked for deletion,
\* or an existing row with submitted values
FormsetOps ==
    [kind : {"add", "change"}, pk : Pks, row : Rows(opts)]
    \cup {[kind |-> "delete", pk |-> pk, row |-> records[pk]] : pk \in DOMAIN records}

\* POST of a parent's change form whose inline formset edits the records
inline_formset_save(request, op) ==
    /\ "change" \in request.user_perms
    /\ (op.kind = "add") = (op.pk \notin DOMAIN records)
    /\ LET can_add == ReadOnlyInline_has_add_permission(opts, request, NoObj)
           can_delete == ReadOnlyInline_has_delete_permission(opts, request, <<op.pk>>)
           ro == ReadOnlyInline_get_readonly_fields(opts, request, <<op.pk>>)
           calls == [NoCalls EXCEPT
                       !.add_perm = {Call("ReadOnlyInline", request, NoObj, can_add)},
                       !.delete_perm = {Call("ReadOnlyInline", request, <<op.pk>>, can_delete)},
                       !.readonly = {Call("ReadOnlyInline", request, <<op.pk>>, ro)}]
       IN  /\ records' =
                CASE op.kind = "add" ->
                        IF can_add THEN Insert(records, op.pk, op.row) ELSE records
                  [] op.kind = "delete" ->
                        IF can_delete THEN Delete(records, {op.pk}) ELSE records
                  [] op.kind = "change" ->
                        [records EXCEPT ![op.pk] = SaveForm(records[op.pk], op.row, ro)]
           /\ response' = Respond("inline_formset_save", "302", calls)
    /\ AdminUnchanged

-----------------------------------------------------------------------------
(* The tables the list filters query *)

Customers == 1..MaxCustomers
Fingerprints == {"", "fp_1"}
Statuses == {"active", "canceled"}

RECURSIVE Sum(_, _)
Sum(f, S) ==
    IF S = {} THEN 0
    ELSE LET x == CHOOSE y \in S : TRUE IN f[x] + Sum(f, S \ {x})

\* a table of rows that point at a customer, as the number of rows per
\* <<customer, attribute>>
Tables(attrs, max) ==
    {t \in [Customers \X attrs -> 0..max] : Sum(t, Customers \X attrs) <= max}

\* Invoice.customer: every customer is billed by one invoice, with the same pk
Invoice_customer(invoice) == invoice
InvoicePks == Customers

\* customer.card_set.count(), customer.subscription_set.count()
NumCards(customer) == Sum(cards, {customer} \X Fingerprints)
NumSubscriptions(customer) == Sum(subscriptions, {customer} \X Statuses)

-----------------------------------------------------------------------------
(* Querysets: a bag of pks, one copy per row the query returns *)

\* the rows of `customer LEFT OUTER JOIN card`: one per card of the customer,
\* or a single all-NULL card row when the customer has none
JoinCard(customer) ==
    IF NumCards(customer) = 0
    THEN SetToBag({[isnull |-> TRUE, fingerprint |-> None]})
    ELSE [row \in {[isnull |-> FALSE, fingerprint |-> f] :
                      f \in {g \in Fingerprints : cards[<<customer, g>>] > 0}}
            |-> cards[<<customer, row.fingerprint>>]]

\* a Q object: the lookups it ORs together, each [lookup, value]
Q(lookup, value) == {[lookup |-> lookup, value |-> value]}
Q_or(a, b) == a \cup b

\* lookups that reach the card through the invoice's customer
ThroughCustomer == {"customer__card__fingerprint", "customer__card"}

\* the customer whose cards a row of the queried model is joined with
CustomerOf(q, pk) ==
    IF \E l \in q : l.lookup \in ThroughCustomer THEN Invoice_customer(pk) ELSE pk

\* one lookup on a joined row: ...card__fingerprint=value compares the card's
\* column (never true of the NULL row), ...card=None is card IS NULL
LookupHolds(l, row) ==
    IF l.lookup \in {"card__fingerprint", "customer__card__fingerprint"}
    THEN ~row.isnull /\ row.fingerprint = l.value
    ELSE l.value = None /\ row.isnull

\* the number of joined rows of pk that satisfy q
Matching(q, pk) ==
    LET join == JoinCard(CustomerOf(q, pk))
    IN  Sum(join, {row \in DOMAIN join : \E l \in q : LookupHolds(l, row)})

\* queryset.filter(q) across the card relation: one result row per joined row
\* that satisfies q
qs_filter(queryset, q) ==
    [pk \in {p \in DOMAIN queryset : Matching(q, p) > 0} |-> queryset[pk] * Matching(q, pk)]

\* queryset.exclude(q) across the card relation: NOT (pk IN subquery), so a row
\* stays when none of its joined rows satisfies q
qs_exclude(queryset, q) ==
    [pk \in {p \in DOMAIN queryset : Matching(q, p) = 0} |-> queryset[pk]]

\* queryset.all()
qs_all(queryset) == queryset

-----------------------------------------------------------------------------
(* The list filters; self.value() is self.value *)

CustomerHasCardListFilter_queryset_fallthrough(self, request, queryset) ==
    LET no_card == Q_or(Q("card__fingerprint", ""), Q("card", None))
    IN  IF self.value = "yes" THEN qs_exclude(queryset, no_card)
        ELSE qs_filter(queryset, no_card)

CustomerHasCardListFilter_queryset_any_card(self, request, queryset) ==
    LET no_card == Q("card", None)
    IN  IF self.value = "yes" THEN qs_exclude(queryset, no_card)
        ELSE IF self.value = "no" THEN qs_filter(queryset, no_card)
        ELSE qs_all(queryset)

CustomerHasCardListFilter_queryset(self, request, queryset) ==
    LET no_card == Q_or(Q("card__fingerprint", ""), Q("card", None))
    IN  IF self.value = "yes" THEN qs_exclude(queryset, no_card)
        ELSE IF self.value = "no" THEN qs_filter(queryset, no_card)
        ELSE qs_all(queryset)

InvoiceCustomerHasCardListFilter_queryset(self, request, queryset) ==
    LET no_card == Q_or(Q("customer__card__fingerprint", ""), Q("customer__card", None))
    IN  IF self.value = "yes" THEN qs_exclude(queryset, no_card)
        ELSE IF self.value = "no" THEN qs_filter(queryset, no_card)
        ELSE qs_all(queryset)

\* filtering on subscription__status through the join, not the pk subquery
CustomerSubscriptionStatusListFilter_queryset_join(self, request, queryset) ==
    IF self.value = "none"
    THEN [pk \in {p \in DOMAIN queryset : NumSubscriptions(p) = 0} |-> 1]
    ELSE IF self.value /= None /\ self.value /= ""
    THEN [pk \in {p \in DOMAIN queryset :
                    self.value \in Statuses /\ subscriptions[<<p, self.value>>] > 0}
            |-> queryset[pk] * subscriptions[<<pk, self.value>>]]
    ELSE qs_all(queryset)

CustomerSubscriptionStatusListFilter_queryset(self, request, queryset) ==
    IF self.value = "none"
    THEN \* annotate(subs=Count('subscription')) groups by customer
         [pk \in {p \in DOMAIN queryset : NumSubscriptions(p) = 0} |-> 1]
    ELSE IF self.value /= None /\ self.value /= ""
    THEN LET customers == {c \in Customers :
                             \E st \in Statuses :
                                 st = self.value /\ subscriptions[<<c, st>>] > 0}
         IN  [pk \in {p \in DOMAIN queryset : p \in customers} |-> queryset[pk]]
    ELSE qs_all(queryset)

\* the "Customer Has Card" column of the invoice list
customer_has_card(obj) ==
    \E f \in Fingerprints : f /= "" /\ cards[<<Invoice_customer(obj), f>>] > 0

-----------------------------------------------------------------------------
(* Idle values of the variables a specification does not use *)

NoResponse == Respond("", "", NoCalls)
NoTable == <<>>
NoFilterCall == [filter |-> "", value |-> None, queryset |-> {}, result |-> EmptyBag]
NoUserModel == [USERNAME_FIELD |-> "", fields |-> {}]
NoSearch == [admin |-> "", search_fields |-> List(<<>>)]

-----------------------------------------------------------------------------
(* Spec: admin requests over the stored records *)

Init ==
    /\ opts \in Metas
    /\ \E present \in SUBSET Pks : records \in [present -> Rows(opts)]
    /\ response = NoResponse
    /\ cards = NoTable
    /\ subscriptions = NoTable
    /\ filter_call = NoFilterCall
    /\ user_model = NoUserModel
    /\ search = NoSearch

Next ==
    \/ \E request \in Requests, pk \in Pks, row \in Rows(opts) : add_view(request, pk, row)
    \/ \E request \in Requests, pk \in Pks : delete_view(request, pk)
    \/ \E request \in Requests, pk \in Pks, posted \in Rows(opts) : change_view(request, pk, posted)
    \/ \E request \in Requests, site_actions \in BaseActions, selected \in SUBSET Pks :
          changelist_action(request, site_actions, selected)
    \/ \E request \in Requests, op \in FormsetOps : inline_formset_save(request, op)

Spec == Init /\ [][Next]_vars

-----------------------------------------------------------------------------
(* SpecFilters: one changelist request through one list filter *)

HasCardValues == {None, "yes", "no"}
SubStatusValues == {None, "", "none"} \cup Statuses

FilterCall(name, value, queryset, result) ==
    [filter |-> name, value |-> value, queryset |-> queryset, result |-> result]

FilterUnchanged == UNCHANGED <<opts, records, response, cards, subscriptions, user_model, search>>

CustomerHasCard_changelist(value, queryset) ==
    /\ filter_call = NoFilterCall
    /\ filter_call' = FilterCall("CustomerHasCardListFilter", value, queryset,
            CustomerHasCardListFilter_queryset([value |-> value], "GET", SetToBag(queryset)))
    /\ FilterUnchanged

InvoiceCustomerHasCard_changelist(value, queryset) ==
    /\ filter_call = NoFilterCall
    /\ filter_call' = FilterCall("InvoiceCustomerHasCardListFilter", value, queryset,
            InvoiceCustomerHasCardListFilter_queryset([value |-> value], "GET", SetToBag(queryset)))
    /\ FilterUnchanged

CustomerSubscriptionStatus_changelist(value, queryset) ==
    /\ filter_call = NoFilterCall
    /\ filter_call' = FilterCall("CustomerSubscriptionStatusListFilter", value, queryset,
            CustomerSubscriptionStatusListFilter_queryset([value |-> value], "GET", SetToBag(queryset)))
    /\ FilterUnchanged

InitFilters ==
    /\ opts = CHOOSE m \in Metas : TRUE
    /\ records = <<>>
    /\ response = NoResponse
    /\ cards \in Tables(Fingerprints, MaxCards)
    /\ subscriptions \in Tables(Statuses, MaxSubscriptions)
    /\ filter_call = NoFilterCall
    /\ user_model = NoUserModel
    /\ search = NoSearch

NextFilters ==
    \/ \E value \in HasCardValues, queryset \in SUBSET Customers :
          CustomerHasCard_changelist(value, queryset)
    \/ \E value \in HasCardValues, queryset \in SUBSET InvoicePks :
          InvoiceCustomerHasCard_changelist(value, queryset)
    \/ \E value \in SubStatusValues, queryset \in SUBSET Customers :
          CustomerSubscriptionStatus_changelist(value, queryset)

SpecFilters == InitFilters /\ [][NextFilters]_vars

-----------------------------------------------------------------------------
(* search_fields of the registered admin classes *)

user_search_fields ==
    LET fields == List(<<Format("user__", Str(user_model.USERNAME_FIELD))>>)
    IN  IF "email" \in user_model.fields
        THEN ListAdd(fields, List(<<Str("user__email")>>))
        ELSE fields

customer_search_fields ==
    List([i \in DOMAIN user_search_fields.items |->
            Format("customer__", user_search_fields.items[i])])

ChargeAdmin_search_fields ==
    ListAdd(List(<<Str("stripe_id"), Str("customer__stripe_id"), Str("invoice__stripe_id")>>),
            customer_search_fields)

EventProcessingExceptionAdmin_search_fields ==
    List(<<Str("message"), Str("traceback"), Str("data")>>)

EventAdmin_search_fields ==
    ListAdd(List(<<Str("stripe_id"), Str("customer__stripe_id"), Str("validated_message")>>),
            customer_search_fields)

\* the assignment ends in a comma: a 1-tuple holding the list
CustomerAdmin_search_fields ==
    Tuple(<<ListAdd(List(<<Str("stripe_id")>>), user_search_fields)>>)

InvoiceAdmin_search_fields ==
    ListAdd(List(<<Str("stripe_id"), Str("customer__stripe_id")>>), customer_search_fields)

PlanAdmin_search_fields == List(<<Str("stripe_id"), Str("name")>>)

TransferAdmin_search_fields == List(<<Str("stripe_id"), Str("event__stripe_id")>>)

AdminClasses ==
    {"ChargeAdmin", "EventProcessingExceptionAdmin", "EventAdmin", "CustomerAdmin",
     "InvoiceAdmin", "PlanAdmin", "TransferAdmin"}

search_fields_of(admin) ==
    CASE admin = "ChargeAdmin" -> ChargeAdmin_search_fields
      [] admin = "EventProcessingExceptionAdmin" -> EventProcessingExceptionAdmin_search_fields
      [] admin = "EventAdmin" -> EventAdmin_search_fields
      [] admin = "CustomerAdmin" -> CustomerAdmin_search_fields
      [] admin = "InvoiceAdmin" -> InvoiceAdmin_search_fields
      [] admin = "PlanAdmin" -> PlanAdmin_search_fields
      [] admin = "TransferAdmin" -> TransferAdmin_search_fields

-----------------------------------------------------------------------------
(* SpecSearch: the class bodies evaluated against a user model *)

UserFieldNames == {"id", "username", "email", "phone"}
UsernameFields == {"username", "email", "phone"}

\* @admin.register(...) of one class: its body has been evaluated
register(admin) ==
    /\ search' = [admin |-> admin, search_fields |-> search_fields_of(admin)]
    /\ UNCHANGED <<opts, records, response, cards, subscriptions, filter_call, user_model>>

InitSearch ==
    /\ opts = CHOOSE m \in Metas : TRUE
    /\ records = <<>>
    /\ response = NoResponse
    /\ cards = NoTable
    /\ subscriptions = NoTable
    /\ filter_call = NoFilterCall
    /\ \E name \in UsernameFields, fields \in SUBSET UserFieldNames :
          /\ name \in fields
          /\ user_model = [USERNAME_FIELD |-> name, fields |-> fields]
    /\ search = NoSearch

NextSearch == \E admin \in AdminClasses : register(admin)

SpecSearch == InitSearch /\ [][NextSearch]_vars

-----------------------------------------------------------------------------
(* Claims about ReadOnlyAdmin and ReadOnlyInline, under Spec *)

\* C1: no admin request (add, change-form submit, single delete, bulk
\* delete_selected, inline formset submit) changes the stored records: the set
\* of records and every field value stay as they were.
C1_ReadOnly == [][records' = records]_vars

\* a delete request by a user holding every permission was served while a
\* record was stored
C1_Witness ==
    /\ response.view = "delete_view"
    /\ \E c \in response.delete_perm : "delete" \in c.request.user_perms
    /\ DOMAIN records /= {}

\* C2: has_add_permission and has_delete_permission of both classes return
\* False, whatever the request's user may do and whether or not an obj is given.
C2_NoAddNoDelete ==
    \A c \in response.add_perm \cup response.delete_perm : c.ret = FALSE

\* the inline was asked about deleting an existing obj by a user who holds the
\* delete permission
C2_Witness ==
    \E c \in response.delete_perm :
        /\ c.cls = "ReadOnlyInline"
        /\ c.obj /= NoObj
        /\ "delete" \in c.request.user_perms

\* C3: a collection returned by ReadOnlyAdmin.get_actions never has the key
\* delete_selected.
C3_DeleteActionAbsent ==
    \A c \in response.actions :
        c.ret.raised = "" => "delete_selected" \notin Keys(c.ret.actions)

\* get_actions returned for a base collection that offered delete_selected
\* beside another action
C3_Witness ==
    \E c \in response.actions :
        /\ c.ret.raised = ""
        /\ c.base = ActionItems
        /\ c.ret.actions /= {}

\* C4: get_readonly_fields of both classes returns a list without duplicates
\* whose elements are exactly the names of the model's local fields and of its
\* local many-to-many fields.
C4_AllFieldsReadOnly ==
    \A c \in response.readonly :
        /\ Len(c.ret) = Cardinality(Range(c.ret))
        /\ Range(c.ret) = {opts.local_fields[i] : i \in DOMAIN opts.local_fields}
                          \cup {opts.local_many_to_many[i] : i \in DOMAIN opts.local_many_to_many}

\* get_readonly_fields of ReadOnlyAdmin was called on a model that has a
\* many-to-many field
C4_Witness ==
    \E c \in response.readonly :
        /\ c.cls = "ReadOnlyAdmin"
        /\ opts.local_many_to_many /= <<>>
        /\ Len(c.ret) = 2

\* C8: ReadOnlyAdmin.get_actions never raises, and returns the base collection
\* without delete_selected, every other action kept.
C8_GetActionsTotal ==
    \A c \in response.actions :
        /\ c.ret.raised = ""
        /\ c.ret.actions = {it \in c.base : it[1] /= "delete_selected"}

-----------------------------------------------------------------------------
(* Claims about the list filters, under SpecFilters *)

HasCardFilters == {"CustomerHasCardListFilter", "InvoiceCustomerHasCardListFilter"}

\* the customer a row of the filtered list belongs to
RowCustomer(name, pk) ==
    IF name = "InvoiceCustomerHasCardListFilter" THEN Invoice_customer(pk) ELSE pk

\* the filter's answer for the other value on the same input
HasCardResult(name, value, queryset) ==
    IF name = "InvoiceCustomerHasCardListFilter"
    THEN InvoiceCustomerHasCardListFilter_queryset([value |-> value], "GET", SetToBag(queryset))
    ELSE CustomerHasCardListFilter_queryset([value |-> value], "GET", SetToBag(queryset))

\* C5: for both card-presence filters the records returned for 'yes' and for
\* 'no' are disjoint and together make up the input queryset, and a record is
\* returned for 'no' exactly when its customer has no card or has a card whose
\* fingerprint is the empty string.
C5_YesNoPartition ==
    filter_call.filter \in HasCardFilters /\ filter_call.value \in {"yes", "no"} =>
        LET name == filter_call.filter
            input == filter_call.queryset
            other == IF filter_call.value = "yes" THEN "no" ELSE "yes"
            here == BagToSet(filter_call.result)
            there == BagToSet(HasCardResult(name, other, input))
            no == IF filter_call.value = "no" THEN here ELSE there
        IN  /\ here \cap there = {}
            /\ here \cup there = input
            /\ no = {pk \in input :
                        \/ \A f \in Fingerprints : cards[<<RowCustomer(name, pk), f>>] = 0
                        \/ cards[<<RowCustomer(name, pk), "">>] > 0}

\* 'yes' was asked of the invoice list while one customer holds a card with a
\* fingerprint and another holds a card without
C5_Witness ==
    /\ filter_call.filter = "InvoiceCustomerHasCardListFilter"
    /\ filter_call.value = "yes"
    /\ filter_call.queryset = InvoicePks
    /\ BagToSet(filter_call.result) /= {}
    /\ \E pk \in InvoicePks : cards[<<Invoice_customer(pk), "">>] > 0

C7_NoValueNoFilter ==
    filter_call.filter /= "" /\ filter_call.value = None =>
        filter_call.result = SetToBag(filter_call.queryset)

\* a filter was called without a value on a non-empty input in which some
\* customer has no card and no subscription
C7_Witness ==
    /\ filter_call.filter = "CustomerHasCardListFilter"
    /\ filter_call.value = None
    /\ \E pk \in filter_call.queryset : NumCards(pk) = 0 /\ NumSubscriptions(pk) = 0

\* C9: the invoice list's "Customer Has Card" column and its card-presence
\* filter agree: 'yes' returns an invoice exactly when customer_has_card is
\* True for it, 'no' exactly when it is False.
C9_ColumnAgreesWithFilter ==
    /\ filter_call.filter = "InvoiceCustomerHasCardListFilter"
    /\ filter_call.value \in {"yes", "no"}
    =>
        \A pk \in filter_call.queryset :
            (pk \in BagToSet(filter_call.result))
                <=> (customer_has_card(pk) = (filter_call.value = "yes"))

-----------------------------------------------------------------------------
(* Claim about search_fields, under SpecSearch *)

IsSuffix(t, s) ==
    /\ Len(t) <= Len(s)
    /\ \A i \in 1..Len(t) : s[Len(s) - Len(t) + i] = t[i]

\* C10: every registered class's search_fields is a flat sequence of lookup
\* strings; CustomerAdmin's is 'stripe_id' followed by user_search_fields(),
\* and those of ChargeAdmin, EventAdmin and InvoiceAdmin end with
\* customer_search_fields().
C10_SearchFieldsFlat ==
    search.admin /= "" =>
        LET items == search.search_fields.items
        IN  /\ \A i \in DOMAIN items : items[i].type = "str"
            /\ search.admin = "CustomerAdmin" =>
                  items = <<Str("stripe_id")>> \o user_search_fields.items
            /\ search.admin \in {"ChargeAdmin", "EventAdmin", "InvoiceAdmin"} =>
                  IsSuffix(customer_search_fields.items, items)

====
